---------------------------- MODULE Spec2Model ----------------------------
(***************************************************************************)
(* Model of the ticket-reply evaluation pipeline:                          *)
(*   src/src/parser.py     parse_response (strict JSON path, regex         *)
(*                         fallback, clamp_score)                          *)
(*   src/src/evaluator.py  evaluate_ticket_with_retry (tenacity policy)    *)
(*                         and evaluate_tickets (the batch driver)         *)
(*   src/src/csv_handler.py  read_tickets, write_results                   *)
(*   src/evaluate_tickets.py main (read, evaluate, write, summary)         *)
(*                                                                         *)
(* A text is a sequence of lexical units: punctuation, single decimal      *)
(* digits, white space and whole words.  json.loads and the regular        *)
(* expressions of the fallback parser are both computed on that sequence.  *)
(***************************************************************************)
EXTENDS Integers, Sequences, FiniteSets, TLC

VARIABLES
    \* ---- parser (src/src/parser.py) ----
    doc,            \* description of the response the text was rendered from
    raw_response,   \* the text handed to parse_response
    ppc,            \* position in parse_response
    path,           \* which path produced the outcome: "none", "json", "regex"
    warned,         \* the "JSON parse failed" warning has been printed
    presult,        \* the EvaluationResult returned by parse_response
    perror,         \* the error raised out of parse_response
    \* ---- driver (src/src/evaluator.py) ----
    tickets,        \* the input list of TicketInput
    idx,            \* enumerate index i of the for loop (1-based)
    pc,             \* position in evaluate_tickets / evaluate_ticket_with_retry
    attempt_number, \* tenacity's attempt counter for the current item
    outcome,        \* result or error of the current call of the wrapper
    results,        \* the list of TicketEvaluated built so far
    calls,          \* per item: outcomes of client.evaluate, in call order
    raised,         \* per item: the error the wrapper raised to the driver
    log,            \* calls of client.evaluate, waits and appended records,
                    \* in the order they happened
    \* ---- main (src/evaluate_tickets.py, src/src/csv_handler.py) ----
    file,           \* the input file
    skipped,        \* row numbers of the "Skipping empty row" warnings
    output,         \* what write_results wrote, one entry per call
    summary,        \* the summary main printed
    reported,       \* the error main printed
    exit_code       \* what main returned (-1 while it runs)

parserVars == <<doc, raw_response, ppc, path, warned, presult, perror>>
driverVars ==
    <<tickets, idx, pc, attempt_number, outcome, results, calls, raised, log>>
mainVars == <<file, skipped, output, summary, reported, exit_code>>
vars == <<doc, raw_response, ppc, path, warned, presult, perror,
          tickets, idx, pc, attempt_number, outcome, results, calls, raised, log,
          file, skipped, output, summary, reported, exit_code>>

----------------------------------------------------------------------------
(* Lexical units of a text                                                 *)

Q == "\""
WS == {" ", "\n"}
DigitTok == <<"0", "1", "2", "3", "4", "5", "6", "7", "8", "9">>
Digits == {DigitTok[k] : k \in 1..10}
DigitVal(t) == (CHOOSE k \in 1..10 : DigitTok[k] = t) - 1

CS == "content_score"
CE == "content_explanation"
FS == "format_score"
FE == "format_explanation"

Max2(a, b) == IF a >= b THEN a ELSE b
Min2(a, b) == IF a <= b THEN a ELSE b

\* Decimal rendering of a natural number, most significant digit first.
RECURSIVE NatToText(_)
NatToText(n) ==
    IF n < 10 THEN <<DigitTok[n + 1]>>
    ELSE NatToText(n \div 10) \o <<DigitTok[(n % 10) + 1]>>

IntToText(n) == IF n < 0 THEN <<"-">> \o NatToText(-n) ELSE NatToText(n)

\* Value of a non-empty run of digits.
RECURSIVE DigitsValue(_)
DigitsValue(ds) ==
    IF Len(ds) = 0 THEN 0
    ELSE 10 * DigitsValue(SubSeq(ds, 1, Len(ds) - 1)) + DigitVal(ds[Len(ds)])

\* End (exclusive) of the maximal run of digits that starts at i.
RECURSIVE DigitRunEnd(_, _)
DigitRunEnd(txt, i) ==
    IF i <= Len(txt) /\ txt[i] \in Digits THEN DigitRunEnd(txt, i + 1) ELSE i

RECURSIVE SkipWs(_, _)
SkipWs(txt, i) ==
    IF i <= Len(txt) /\ txt[i] \in WS THEN SkipWs(txt, i + 1) ELSE i

\* Index of the first Q at or after i, or 0.
RECURSIVE NextQuote(_, _)
NextQuote(txt, i) ==
    IF i > Len(txt) THEN 0
    ELSE IF txt[i] = Q THEN i
    ELSE NextQuote(txt, i + 1)


----------------------------------------------------------------------------
(* json.loads: decoded values and the decoder                              *)

\* A decoded value.  t is its Python type; n the integer (for a float, its
\* integer part, signed; for inf, its sign; for a bool, 0 or 1); s the
\* content of a string or, for a float, its fraction digits after a "-"
\* when it is negative (-0.5 has integer part 0); m the members of a dict
\* (<<key, value>> pairs in text order) or the elements of a list.
Val(t, n, s, m) == [t |-> t, n |-> n, s |-> s, m |-> m]
IntV(n) == Val("int", n, <<>>, <<>>)
StrV(s) == Val("str", 0, s, <<>>)
NoneV == Val("NoneType", 0, <<>>, <<>>)

Scanned(v, pos) == [ok |-> TRUE, v |-> v, pos |-> pos]
ScanFail == [ok |-> FALSE, v |-> NoneV, pos |-> 0]

\* A string literal from its opening quote at i to its closing quote.  A
\* literal line break inside a string is an invalid control character.
StringUpTo(txt, i, close) ==
    IF close = 0 THEN ScanFail
    ELSE IF \E k \in (i + 1)..(close - 1) : txt[k] = "\n" THEN ScanFail
    ELSE Scanned(StrV(SubSeq(txt, i + 1, close - 1)), close + 1)

ScanString(txt, i) == StringUpTo(txt, i, NextQuote(txt, i + 1))

\* The number whose integer part is txt[j..intEnd-1], with its fraction
\* txt[intEnd+1..fracEnd-1] when a "." and a digit follow.
FloatAt(txt, j, intEnd, fracEnd, sign) ==
    Scanned(Val("float", sign * DigitsValue(SubSeq(txt, j, intEnd - 1)),
                (IF sign < 0 THEN <<"-">> ELSE <<>>)
                \o SubSeq(txt, intEnd + 1, fracEnd - 1), <<>>),
            fracEnd)

NumberAt(txt, j, intEnd, sign) ==
    IF /\ intEnd + 1 <= Len(txt)
       /\ txt[intEnd] = "."
       /\ txt[intEnd + 1] \in Digits
    THEN FloatAt(txt, j, intEnd, DigitRunEnd(txt, intEnd + 1), sign)
    ELSE Scanned(IntV(sign * DigitsValue(SubSeq(txt, j, intEnd - 1))), intEnd)

\* What follows the optional "-": 0 or a run of digits not starting with 0,
\* or the constants Infinity and (unsigned only) NaN.
ScanUnsigned(txt, j, sign) ==
    IF j > Len(txt) THEN ScanFail
    ELSE IF txt[j] \in Digits
    THEN NumberAt(txt, j, IF txt[j] = "0" THEN j + 1 ELSE DigitRunEnd(txt, j),
                  sign)
    ELSE IF txt[j] = "Infinity" THEN Scanned(Val("inf", sign, <<>>, <<>>), j + 1)
    ELSE IF txt[j] = "NaN" /\ sign = 1
    THEN Scanned(Val("nan", 0, <<>>, <<>>), j + 1)
    ELSE ScanFail

ScanNumber(txt, i) ==
    IF txt[i] = "-" THEN ScanUnsigned(txt, i + 1, -1)
    ELSE ScanUnsigned(txt, i, 1)

RECURSIVE ScanOnce(_, _)
RECURSIVE ScanMembers(_, _, _)
RECURSIVE ScanElements(_, _, _)

\* After a "," in an object: the next key must open at k.
MemberAgain(txt, k, acc) ==
    IF k > Len(txt) \/ txt[k] # Q THEN ScanFail
    ELSE ScanMembers(txt, k, acc)

\* After a member's value: "}" ends the object, "," goes on.
MemberNext(txt, e, acc) ==
    IF e > Len(txt) THEN ScanFail
    ELSE IF txt[e] = "}" THEN Scanned(Val("dict", Len(acc), <<>>, acc), e + 1)
    ELSE IF txt[e] # "," THEN ScanFail
    ELSE MemberAgain(txt, SkipWs(txt, e + 1), acc)

MemberEnd(txt, key, val, acc) ==
    IF ~val.ok THEN ScanFail
    ELSE MemberNext(txt, SkipWs(txt, val.pos), Append(acc, <<key, val.v>>))

\* After a key: a ":" at c, then the value.
MemberValue(txt, key, c, acc) ==
    IF c > Len(txt) \/ txt[c] # ":" THEN ScanFail
    ELSE MemberEnd(txt, key, ScanOnce(txt, SkipWs(txt, c + 1)), acc)

MemberColon(txt, key, acc) ==
    IF ~key.ok THEN ScanFail
    ELSE MemberValue(txt, key.v.s, SkipWs(txt, key.pos), acc)

\* The members of an object from the key whose opening quote is at i.
ScanMembers(txt, i, acc) == MemberColon(txt, ScanString(txt, i), acc)

\* After an element: "]" ends the array, "," goes on.
ElementNext(txt, e, acc) ==
    IF e > Len(txt) THEN ScanFail
    ELSE IF txt[e] = "]" THEN Scanned(Val("list", Len(acc), <<>>, acc), e + 1)
    ELSE IF txt[e] # "," THEN ScanFail
    ELSE ScanElements(txt, SkipWs(txt, e + 1), acc)

ElementEnd(txt, val, acc) ==
    IF ~val.ok THEN ScanFail
    ELSE ElementNext(txt, SkipWs(txt, val.pos), Append(acc, val.v))

\* The elements of an array from the element that starts at i.
ScanElements(txt, i, acc) == ElementEnd(txt, ScanOnce(txt, i), acc)

\* After "{": "}" (an empty object) or the first key at j.
ObjectFrom(txt, j) ==
    IF j > Len(txt) THEN ScanFail
    ELSE IF txt[j] = "}" THEN Scanned(Val("dict", 0, <<>>, <<>>), j + 1)
    ELSE IF txt[j] = Q THEN ScanMembers(txt, j, <<>>)
    ELSE ScanFail

\* After "[": "]" (an empty array) or the first element at j.
ArrayFrom(txt, j) ==
    IF j > Len(txt) THEN ScanFail
    ELSE IF txt[j] = "]" THEN Scanned(Val("list", 0, <<>>, <<>>), j + 1)
    ELSE ScanElements(txt, j, <<>>)

\* scan_once: the value that starts exactly at i.
ScanOnce(txt, i) ==
    IF i > Len(txt) THEN ScanFail
    ELSE IF txt[i] = Q THEN ScanString(txt, i)
    ELSE IF txt[i] = "{" THEN ObjectFrom(txt, SkipWs(txt, i + 1))
    ELSE IF txt[i] = "[" THEN ArrayFrom(txt, SkipWs(txt, i + 1))
    ELSE IF txt[i] = "null" THEN Scanned(NoneV, i + 1)
    ELSE IF txt[i] = "true" THEN Scanned(Val("bool", 1, <<>>, <<>>), i + 1)
    ELSE IF txt[i] = "false" THEN Scanned(Val("bool", 0, <<>>, <<>>), i + 1)
    ELSE ScanNumber(txt, i)

\* The value must be followed by white space only.
WholeText(txt, r) ==
    IF r.ok /\ SkipWs(txt, r.pos) = Len(txt) + 1 THEN r ELSE ScanFail

\* json.loads: white space, one value, white space, end of text; anything
\* else is a JSONDecodeError.
JsonLoads(txt) == WholeText(txt, ScanOnce(txt, SkipWs(txt, 1)))

----------------------------------------------------------------------------
(* Python conversions used by parse_response_json                          *)

Returned(v) == [ok |-> TRUE, v |-> v, err |-> ""]
Raises(kind) == [ok |-> FALSE, v |-> 0, err |-> kind]

\* White space stripped from both ends, as int() does to a string.
RECURSIVE Strip(_)
Strip(s) ==
    IF Len(s) = 0 THEN s
    ELSE IF s[1] \in WS THEN Strip(Tail(s))
    ELSE IF s[Len(s)] \in WS THEN Strip(SubSeq(s, 1, Len(s) - 1))
    ELSE s

SignedDigits(ds, sign) ==
    IF Len(ds) > 0 /\ \A k \in 1..Len(ds) : ds[k] \in Digits
    THEN Returned(sign * DigitsValue(ds))
    ELSE Raises("ValueError")

IntOfStripped(b) ==
    IF Len(b) > 0 /\ b[1] = "-" THEN SignedDigits(Tail(b), -1)
    ELSE SignedDigits(b, 1)

\* int(str): an optional sign and a non-empty run of digits, else ValueError.
IntOfStr(s) == IntOfStripped(Strip(s))

\* int(x) for a decoded value x.
PyInt(x) ==
    CASE x.t = "int"   -> Returned(x.n)
      [] x.t = "bool"  -> Returned(x.n)
      [] x.t = "float" -> Returned(x.n)
      [] x.t = "nan"   -> Raises("ValueError")
      [] x.t = "inf"   -> Raises("OverflowError")
      [] x.t = "str"   -> IntOfStr(x.s)
      [] OTHER         -> Raises("TypeError")

\* Fraction digits without their trailing zeros; "0" when none is left.
RECURSIVE TrimZeros(_)
TrimZeros(ds) ==
    IF Len(ds) = 0 THEN <<"0">>
    ELSE IF ds[Len(ds)] = "0" THEN TrimZeros(SubSeq(ds, 1, Len(ds) - 1))
    ELSE ds

FloatText(x) ==
    IF Len(x.s) > 0 /\ x.s[1] = "-"
    THEN <<"-">> \o NatToText(-x.n) \o <<".">> \o TrimZeros(Tail(x.s))
    ELSE NatToText(x.n) \o <<".">> \o TrimZeros(x.s)

RECURSIVE PyRepr(_)
RECURSIVE ReprItems(_, _)

\* repr(x), which str() shows for the members of a container.
PyRepr(x) ==
    CASE x.t = "int"      -> IntToText(x.n)
      [] x.t = "bool"     -> IF x.n = 1 THEN <<"True">> ELSE <<"False">>
      [] x.t = "float"    -> FloatText(x)
      [] x.t = "nan"      -> <<"nan">>
      [] x.t = "inf"      -> IF x.n < 0 THEN <<"-", "inf">> ELSE <<"inf">>
      [] x.t = "str"      -> <<"'">> \o x.s \o <<"'">>
      [] x.t = "NoneType" -> <<"None">>
      [] x.t = "list"     -> <<"[">> \o ReprItems(x.m, FALSE) \o <<"]">>
      [] x.t = "dict"     -> <<"{">> \o ReprItems(x.m, TRUE) \o <<"}">>

ReprItem(item, keyed) ==
    IF keyed THEN <<"'">> \o item[1] \o <<"'", ":", " ">> \o PyRepr(item[2])
    ELSE PyRepr(item)

ReprItems(items, keyed) ==
    IF Len(items) = 0 THEN <<>>
    ELSE ReprItem(items[1], keyed)
         \o (IF Len(items) = 1 THEN <<>>
             ELSE <<",", " ">> \o ReprItems(Tail(items), keyed))

\* str(x): a string is itself; anything else is shown as repr shows it.
PyStr(x) == IF x.t = "str" THEN x.s ELSE PyRepr(x)

\* Index in m of the member that data[key] reads: the last one with that
\* key (a repeated key keeps its last value), or 0.
RECURSIVE LastMember(_, _, _)
LastMember(m, key, k) ==
    IF k = 0 THEN 0
    ELSE IF m[k][1] = <<key>> THEN k
    ELSE LastMember(m, key, k - 1)

Item(v) == [ok |-> TRUE, v |-> v, err |-> ""]
NoItem(kind) == [ok |-> FALSE, v |-> NoneV, err |-> kind]

MemberAt(data, k) == IF k = 0 THEN NoItem("KeyError") ELSE Item(data.m[k][2])


\* Mutant of GetItem: data.get(key, 3), a default for a missing key.
GetItemOrDefault(data, key) ==
    IF data.t # "dict" THEN NoItem("TypeError")
    ELSE IF LastMember(data.m, key, Len(data.m)) = 0 THEN Item(IntV(3))
    ELSE Item(data.m[LastMember(data.m, key, Len(data.m))][2])

\* data[key]: KeyError for a dict without the key, TypeError for anything
\* that is not a dict (a list or a str wants integer indices, the others
\* are not subscriptable).
GetItem(data, key) ==
    IF data.t # "dict" THEN NoItem("TypeError")
    ELSE MemberAt(data, LastMember(data.m, key, Len(data.m)))

----------------------------------------------------------------------------
(* src/src/parser.py                                                       *)

EvaluationResult(cs, ce, fs, fe) ==
    [content_score |-> cs, content_explanation |-> ce,
     format_score |-> fs, format_explanation |-> fe]

NoResult == EvaluationResult(0, <<>>, 0, <<>>)

Error(kind, msg) == [kind |-> kind, msg |-> msg]
NoError == Error("", "")

\* str(e) of the one error that escapes parse_response; the others are
\* caught there and only printed.
ErrorMsg(kind) ==
    IF kind = "OverflowError" THEN "cannot convert float infinity to integer"
    ELSE kind


\* Mutants of clamp_score: the lower bound 0 instead of 1; no lower bound.
clamp_score_from_zero(score) == Max2(0, Min2(5, score))
clamp_score_upper_only(score) == Min2(5, score)

clamp_score(score) == Max2(1, Min2(5, score))

Parsed(res) == [ok |-> TRUE, res |-> res, err |-> ""]
ParseRaises(kind) == [ok |-> FALSE, res |-> NoResult, err |-> kind]

\* int(data[key]) and str(data[key]): the lookup's error, or the
\* conversion's.
IntItem(item) == IF item.ok THEN PyInt(item.v) ELSE Raises(item.err)
StrItem(item) ==
    IF item.ok THEN [ok |-> TRUE, v |-> PyStr(item.v), err |-> ""]
    ELSE [ok |-> FALSE, v |-> <<>>, err |-> item.err]

\* The constructor call: its arguments are evaluated in order, the first
\* that fails raises.
BuildResult(cs, ce, fs, fe) ==
    IF ~cs.ok THEN ParseRaises(cs.err)
    ELSE IF ~ce.ok THEN ParseRaises(ce.err)
    ELSE IF ~fs.ok THEN ParseRaises(fs.err)
    ELSE IF ~fe.ok THEN ParseRaises(fe.err)
    ELSE Parsed(EvaluationResult(clamp_score(cs.v), ce.v,
                                 clamp_score(fs.v), fe.v))

FromData(data) ==
    IF ~data.ok THEN ParseRaises("JSONDecodeError")
    ELSE BuildResult(IntItem(GetItem(data.v, CS)), StrItem(GetItem(data.v, CE)),
                     IntItem(GetItem(data.v, FS)), StrItem(GetItem(data.v, FE)))

\* parse_response_json
parse_response_json(txt) == FromData(JsonLoads(txt))

\* The part  "?label"?\s*:\s*  of the four patterns, tried with the label
\* at p: the index after it, or 0 when it does not match there.
AfterColon(txt, b) ==
    IF b <= Len(txt) /\ txt[b] = ":" THEN SkipWs(txt, b + 1) ELSE 0

AfterLabel(txt, label, p) ==
    IF txt[p] # label THEN 0
    ELSE AfterColon(txt, SkipWs(txt, IF p + 1 <= Len(txt) /\ txt[p + 1] = Q
                                     THEN p + 2 ELSE p + 1))

NoMatch == [found |-> FALSE, group |-> <<>>]
Match(g) == [found |-> TRUE, group |-> g]

RECURSIVE SearchScore(_, _, _)
RECURSIVE SearchExplanation(_, _, _)

\* (\d+) at c, or the search goes on after p.
ScoreGroup(txt, label, p, c) ==
    IF c # 0 /\ c <= Len(txt) /\ txt[c] \in Digits
    THEN Match(SubSeq(txt, c, DigitRunEnd(txt, c) - 1))
    ELSE SearchScore(txt, label, p + 1)

\* re.search(r'"?label"?\s*:\s*(\d+)', txt): the leftmost match from p on.
SearchScore(txt, label, p) ==
    IF p > Len(txt) THEN NoMatch
    ELSE ScoreGroup(txt, label, p, AfterLabel(txt, label, p))

ExplanationUpTo(txt, label, p, c, close) ==
    IF close # 0 THEN Match(SubSeq(txt, c + 1, close - 1))
    ELSE SearchExplanation(txt, label, p + 1)

\* "([^"]*)" at c, or the search goes on after p.
ExplanationGroup(txt, label, p, c) ==
    ExplanationUpTo(txt, label, p, c,
                    IF c # 0 /\ c <= Len(txt) /\ txt[c] = Q
                    THEN NextQuote(txt, c + 1) ELSE 0)

\* re.search(r'"?label"?\s*:\s*"([^"]*)"', txt): the leftmost match from p on.
SearchExplanation(txt, label, p) ==
    IF p > Len(txt) THEN NoMatch
    ELSE ExplanationGroup(txt, label, p, AfterLabel(txt, label, p))

DefaultScore == 3
UnableToParse == <<"Unable to parse explanation">>

\* int(match.group(1)) if match else 3
ScoreOf(match) ==
    IF match.found THEN DigitsValue(match.group) ELSE DefaultScore

\* match.group(1) if match else "Unable to parse explanation"
ExplanationOf(match) == IF match.found THEN match.group ELSE UnableToParse


\* Mutant of parse_response_regex: one field that is not found makes all
\* four fields take their defaults.
AllFound(cs, ce, fs, fe) == cs.found /\ ce.found /\ fs.found /\ fe.found
RegexAllOrNothing(cs, ce, fs, fe) ==
    IF AllFound(cs, ce, fs, fe)
    THEN EvaluationResult(clamp_score(ScoreOf(cs)), ExplanationOf(ce),
                          clamp_score(ScoreOf(fs)), ExplanationOf(fe))
    ELSE EvaluationResult(DefaultScore, UnableToParse, DefaultScore, UnableToParse)
parse_response_regex_all_or_nothing(txt) ==
    RegexAllOrNothing(SearchScore(txt, CS, 1), SearchExplanation(txt, CE, 1),
                      SearchScore(txt, FS, 1), SearchExplanation(txt, FE, 1))

\* parse_response_regex
parse_response_regex(txt) ==
    EvaluationResult(clamp_score(ScoreOf(SearchScore(txt, CS, 1))),
                     ExplanationOf(SearchExplanation(txt, CE, 1)),
                     clamp_score(ScoreOf(SearchScore(txt, FS, 1))),
                     ExplanationOf(SearchExplanation(txt, FE, 1)))

\* The except clause of parse_response.
CaughtByParseResponse ==
    {"JSONDecodeError", "KeyError", "TypeError", "ValueError"}

ResponseOutcome(txt, j) ==
    IF j.ok THEN [ok |-> TRUE, res |-> j.res, err |-> NoError, path |-> "json"]
    ELSE IF j.err \in CaughtByParseResponse
    THEN [ok |-> TRUE, res |-> parse_response_regex(txt), err |-> NoError,
          path |-> "regex"]
    ELSE [ok |-> FALSE, res |-> NoResult, err |-> Error(j.err, ErrorMsg(j.err)),
          path |-> "json"]

\* parse_response: the result, or the error that escapes it.
parse_response(txt) == ResponseOutcome(txt, parse_response_json(txt))

----------------------------------------------------------------------------
(* The responses the parser is run on.  A response is described by a doc  *)
(* (what the model was asked for in src/src/prompts.py, and the ways a    *)
(* reply departs from it) and rendered to the text parse_response reads.   *)

MaxScore == 11

Form(k, n) == [k |-> k, n |-> n]
Absent == Form("absent", 0)

\* What may stand as the value of a score key.
IntForms == {Form("int", n) : n \in (-MaxScore)..MaxScore}
OtherScoreForms ==
    {Form("float", n) : n \in {-1, 0, 4, 7}}          \* n.5
    \cup {Form("quoted", n) : n \in {-2, 4}}          \* "n"
    \cup {Form(k, 0) : k \in {"word", "inf", "ninf", "nan", "true", "null",
                              "list"}}
ScoreForms == IntForms \cup OtherScoreForms \cup {Absent}
FewScoreForms == {Absent, Form("int", 4), Form("int", 0), Form("null", 0)}

\* What may stand as the value of an explanation key: a string of one word
\* (n = 1, 2), the empty string, a number, null.
ExplForms == {Absent, Form("str", 1), Form("str", 2), Form("empty", 0),
              Form("int", 5), Form("null", 0)}
FewExplForms == {Absent, Form("str", 1), Form("null", 0)}

ExplWord(n) == IF n = 1 THEN "Good" ELSE "Bad"

Doc(shape, cs, ce, fs, fe, extra) ==
    [shape |-> shape, cs |-> cs, ce |-> ce, fs |-> fs, fe |-> fe,
     extra |-> extra]
NoDoc == Doc("none", Absent, Absent, Absent, Absent, FALSE)

\* object: a JSON object; unclosed: the same cut before its closing brace;
\* bare: label: value pairs without quotes or braces.
Shapes == {"object", "unclosed", "bare"}
\* Replies that are no list of fields at all; nested: an explanation whose
\* text holds the label of a score; twice: the same label two times.
PlainShapes == {"empty", "number", "string", "null", "array", "prose",
                "nested", "twice"}

Docs ==
    \* every pair of score values in a well-formed four-key object
    {Doc("object", cs, Form("str", 1), fs, Form("str", 2), FALSE) :
        cs \in ScoreForms, fs \in ScoreForms}
    \* every explanation value beside in-range scores
    \cup {Doc("object", Form("int", 4), ce, Form("int", 3), fe, FALSE) :
        ce \in ExplForms, fe \in ExplForms}
    \* every shape, with keys present or absent and an additional key
    \cup {Doc(sh, f[1], f[2], f[3], f[4], x) :
        sh \in Shapes, x \in BOOLEAN,
        f \in FewScoreForms \X FewExplForms \X FewScoreForms \X FewExplForms}
    \cup {Doc(sh, Absent, Absent, Absent, Absent, FALSE) : sh \in PlainShapes}

ScoreText(f) ==
    CASE f.k = "int"    -> IntToText(f.n)
      [] f.k = "float"  -> IntToText(f.n) \o <<".", "5">>
      [] f.k = "quoted" -> <<Q>> \o IntToText(f.n) \o <<Q>>
      [] f.k = "word"   -> <<Q, "Good", Q>>
      [] f.k = "inf"    -> <<"Infinity">>
      [] f.k = "ninf"   -> <<"-", "Infinity">>
      [] f.k = "nan"    -> <<"NaN">>
      [] f.k = "true"   -> <<"true">>
      [] f.k = "null"   -> <<"null">>
      [] f.k = "list"   -> <<"[", "1", "]">>

ExplText(f) ==
    CASE f.k = "str"   -> <<Q, ExplWord(f.n), Q>>
      [] f.k = "empty" -> <<Q, Q>>
      [] f.k = "int"   -> IntToText(f.n)
      [] f.k = "null"  -> <<"null">>

\* The fields of a doc in the order the prompt asks for, each <<key, text>>.
FieldsOf(d) ==
    (IF d.cs = Absent THEN <<>> ELSE << <<CS, ScoreText(d.cs)>> >>)
    \o (IF d.ce = Absent THEN <<>> ELSE << <<CE, ExplText(d.ce)>> >>)
    \o (IF d.fs = Absent THEN <<>> ELSE << <<FS, ScoreText(d.fs)>> >>)
    \o (IF d.fe = Absent THEN <<>> ELSE << <<FE, ExplText(d.fe)>> >>)
    \o (IF d.extra THEN << <<"extra", <<"1">> >> >> ELSE <<>>)

FieldText(field, quoted) ==
    (IF quoted THEN <<Q, field[1], Q>> ELSE <<field[1]>>)
    \o <<":", " ">> \o field[2]

RECURSIVE JoinFields(_, _)
JoinFields(fields, quoted) ==
    IF Len(fields) = 0 THEN <<>>
    ELSE FieldText(fields[1], quoted)
         \o (IF Len(fields) = 1 THEN <<>>
             ELSE <<",", " ">> \o JoinFields(Tail(fields), quoted))

Render(d) ==
    CASE d.shape = "object"   -> <<"{">> \o JoinFields(FieldsOf(d), TRUE) \o <<"}">>
      [] d.shape = "unclosed" -> <<"{">> \o JoinFields(FieldsOf(d), TRUE)
      [] d.shape = "bare"     -> JoinFields(FieldsOf(d), FALSE)
      [] d.shape = "empty"    -> <<>>
      [] d.shape = "number"   -> <<"5">>
      [] d.shape = "string"   -> <<Q, "Good", Q>>
      [] d.shape = "null"     -> <<"null">>
      [] d.shape = "array"    -> <<"[", "1", ",", " ", "2", "]">>
      [] d.shape = "prose"    -> <<"not", " ", "valid", " ", "json", " ", "but",
                                   " ", CS, ":", " ", "5">>
      [] d.shape = "nested"   -> <<CE, ":", " ", Q, FS, ":", " ", "2", Q>>
      [] d.shape = "twice"    -> <<CS, ":", " ", "2", ",", " ", CS, ":", " ",
                                   "4", ",", " ", CE, ":", " ", Q, "Good", Q,
                                   ",", " ", CE, ":", " ", Q, "Bad", Q>>
      [] d.shape = "none"     -> <<>>

----------------------------------------------------------------------------
(* parse_response as a process: the try, then the except clause           *)

\* main has not been entered.
NoSummary ==
    [total |-> 0, successful |-> 0, failed |-> 0,
     avg_content |-> 0, avg_format |-> 0]
NoFile == [exists |-> FALSE, header |-> <<>>, rows |-> <<>>]
MainIdle ==
    /\ file = NoFile
    /\ skipped = <<>>
    /\ output = <<>>
    /\ summary = NoSummary
    /\ reported = NoError
    /\ exit_code = -1

ParserIdle ==
    /\ doc = NoDoc
    /\ raw_response = <<>>
    /\ ppc = "idle"
    /\ path = "none"
    /\ warned = FALSE
    /\ presult = NoResult
    /\ perror = NoError

\* The three ways the try block ends.
JsonOutcome(j) ==
    \/ /\ j.ok
       /\ ppc' = "returned"
       /\ path' = "json"
       /\ presult' = j.res
       /\ UNCHANGED <<warned, perror>>
    \/ /\ ~j.ok
       /\ j.err \in CaughtByParseResponse
       /\ ppc' = "except"
       /\ perror' = Error(j.err, ErrorMsg(j.err))
       /\ UNCHANGED <<path, warned, presult>>
    \/ /\ ~j.ok
       /\ j.err \notin CaughtByParseResponse
       /\ ppc' = "raised"
       /\ path' = "json"
       /\ perror' = Error(j.err, ErrorMsg(j.err))
       /\ UNCHANGED <<warned, presult>>


\* Mutant of TryJson: the fallback is consulted whatever the primary path
\* gives.
TryRegexAlways ==
    /\ ppc = "start"
    /\ ppc' = "except"
    /\ perror' = NoError
    /\ UNCHANGED <<path, warned, presult>>
    /\ UNCHANGED <<doc, raw_response>>
    /\ UNCHANGED driverVars
    /\ UNCHANGED mainVars

\* try: return parse_response_json(raw_response)
TryJson ==
    /\ ppc = "start"
    /\ JsonOutcome(parse_response_json(raw_response))
    /\ UNCHANGED <<doc, raw_response>>
    /\ UNCHANGED driverVars
    /\ UNCHANGED mainVars

\* Mutant of ExceptRegex: a score the structured decode could read is
\* kept, and the search fills in the others.
KeptScore(item, found) == IF item.ok THEN clamp_score(item.v) ELSE found

DecodedScore(data, key, found) ==
    IF data.ok THEN KeptScore(IntItem(GetItem(data.v, key)), found)
    ELSE found

ExceptRegexKeepsDecoded ==
    /\ ppc = "except"
    /\ warned' = TRUE
    /\ ppc' = "returned"
    /\ path' = "regex"
    /\ presult' =
          [parse_response_regex(raw_response) EXCEPT
              !.content_score = DecodedScore(JsonLoads(raw_response), CS, @),
              !.format_score = DecodedScore(JsonLoads(raw_response), FS, @)]
    /\ perror' = NoError
    /\ UNCHANGED <<doc, raw_response>>
    /\ UNCHANGED driverVars
    /\ UNCHANGED mainVars

\* except (...) as e: print the warning, return parse_response_regex(...)
ExceptRegex ==
    /\ ppc = "except"
    /\ warned' = TRUE
    /\ ppc' = "returned"
    /\ path' = "regex"
    /\ presult' = parse_response_regex(raw_response)
    /\ perror' = NoError
    /\ UNCHANGED <<doc, raw_response>>
    /\ UNCHANGED driverVars
    /\ UNCHANGED mainVars

DriverIdle ==
    /\ tickets = <<>>
    /\ idx = 0
    /\ pc = "idle"
    /\ attempt_number = 0
    /\ outcome = [ok |-> FALSE, res |-> NoResult, err |-> NoError]
    /\ results = <<>>
    /\ calls = <<>>
    /\ raised = <<>>
    /\ log = <<>>

ParserInit ==
    /\ doc \in Docs
    /\ raw_response = Render(doc)
    /\ ppc = "start"
    /\ path = "none"
    /\ warned = FALSE
    /\ presult = NoResult
    /\ perror = NoError
    /\ DriverIdle
    /\ MainIdle

ParserNext == TryJson \/ ExceptRegex

ParserSpec == ParserInit /\ [][ParserNext]_vars

----------------------------------------------------------------------------
(* src/src/evaluator.py: the inputs                                        *)

MaxTickets == 2

TicketInput(ticket, reply) == [ticket |-> ticket, reply |-> reply]

Inputs == {TicketInput("Order delayed?", "Shipped yesterday"),
           TicketInput("Refund please", "Refund issued")}

TicketLists == UNION {[1..n -> Inputs] : n \in 0..MaxTickets}

\* What one call of client.evaluate may do: return a text or raise.
Returns(text) == [raises |-> FALSE, text |-> text, err |-> NoError]
Fails(err) == [raises |-> TRUE, text |-> <<>>, err |-> err]

\* The replies a client may return: the object asked for with out-of-range
\* scores, prose with one score in it, and an object whose score is the
\* JSON constant Infinity.
ClientDocs ==
    {Doc("object", Form("int", 0), Form("str", 1), Form("int", 10),
         Form("str", 2), FALSE),
     Doc("prose", Absent, Absent, Absent, Absent, FALSE),
     Doc("object", Form("inf", 0), Form("str", 1), Form("int", 3),
         Form("str", 2), FALSE)}

\* The error a client raises itself (content is None).
ClientErrors == {Error("ValueError", "LLM returned empty response")}

ClientOutcomes ==
    {Returns(Render(d)) : d \in ClientDocs} \cup {Fails(e) : e \in ClientErrors}

----------------------------------------------------------------------------
(* src/src/evaluator.py: evaluate_ticket_with_retry                        *)


\* Mutant of MaxAttempts: stop_after_attempt(2).
TwoAttempts == 1 + 1

\* stop=stop_after_attempt(3)
MaxAttempts == 3
StopAfterAttempt(n) == n >= MaxAttempts

\* wait=wait_exponential(multiplier=2, min=2, max=10)
WaitMultiplier == 2
WaitMin == 2
WaitMax == 10

\* retry=retry_if_exception_type((Exception,)): every error of the model is
\* an Exception.
ExceptionKinds ==
    {"ValueError", "OverflowError", "TypeError", "KeyError", "JSONDecodeError"}
RetryIfException(err) == err.kind \in ExceptionKinds


\* Mutant of Reraise: the decorator without reraise=True.
NoReraise == FALSE

\* reraise=True
Reraise == TRUE

\* What tenacity raises when it gives up on an error it would retry: with
\* reraise the attempt's own error, without it a RetryError around it.
RetryError == Error("RetryError", "RetryError[<Future state=finished raised>]")
RaisedOnStop(err) == IF Reraise THEN err ELSE RetryError

Success(res) == [ok |-> TRUE, res |-> res, err |-> NoError]
Failure(err) == [ok |-> FALSE, res |-> NoResult, err |-> err]
NoOutcome == Failure(NoError)

OfParse(p) == IF p.ok THEN Success(p.res) ELSE Failure(p.err)


\* Mutant of AttemptBody: a result of the regex fallback is refused.
StrictOfParse(p) ==
    IF p.ok /\ p.path = "json" THEN Success(p.res)
    ELSE IF p.ok THEN Failure(Error("ValueError", "JSON parse failed"))
    ELSE Failure(p.err)
AttemptBodyStrict(o) ==
    IF o.raises THEN Failure(o.err) ELSE StrictOfParse(parse_response(o.text))

\* The body of the wrapped function: client.evaluate, then parse_response.
AttemptBody(o) == IF o.raises THEN Failure(o.err) ELSE OfParse(parse_response(o.text))

\* An entry of the log: a call of client.evaluate, a wait of t time units,
\* or the record appended, each for an item.
Event(kind, item, t) == [kind |-> kind, item |-> item, t |-> t]

RECURSIVE Pow2(_)
Pow2(n) == IF n <= 0 THEN 1 ELSE 2 * Pow2(n - 1)

\* Mutant of wait_exponential: the exponent is the attempt number itself.
wait_exponential_from_attempt(n) ==
    Max2(Max2(0, WaitMin), Min2(WaitMultiplier * Pow2(n), WaitMax))

\* wait=wait_exponential(multiplier=2, min=2, max=10): after attempt n
\* tenacity waits multiplier * 2^(n-1), kept within min and max.
wait_exponential(n) ==
    Max2(Max2(0, WaitMin), Min2(WaitMultiplier * Pow2(n - 1), WaitMax))

\* The outcome of the body for each thing client.evaluate may do.
BodyOutcome == [o \in ClientOutcomes |-> AttemptBody(o)]

\* Mutant of AfterAttempt: a result returned after failed attempts keeps
\* the message of the last failure as its format explanation.
AfterAttemptRemembers(r) ==
    \/ /\ r.ok
       /\ pc' = "returned"
       /\ outcome' = IF attempt_number > 1
                     THEN Success([r.res EXCEPT
                                     !.format_explanation = <<outcome.err.msg>>])
                     ELSE r
       /\ UNCHANGED raised
    \/ /\ ~r.ok
       /\ RetryIfException(r.err)
       /\ ~StopAfterAttempt(attempt_number)
       /\ pc' = "sleep"
       /\ outcome' = r
       /\ UNCHANGED raised
    \/ /\ ~r.ok
       /\ RetryIfException(r.err)
       /\ StopAfterAttempt(attempt_number)
       /\ pc' = "raised"
       /\ outcome' = Failure(RaisedOnStop(r.err))
       /\ raised' = [raised EXCEPT ![idx] = RaisedOnStop(r.err)]
    \/ /\ ~r.ok
       /\ ~RetryIfException(r.err)
       /\ pc' = "raised"
       /\ outcome' = r
       /\ raised' = [raised EXCEPT ![idx] = r.err]

\* What tenacity does with the outcome r of one attempt.
AfterAttempt(r) ==
    \/ /\ r.ok
       /\ pc' = "returned"
       /\ outcome' = r
       /\ UNCHANGED raised
    \/ /\ ~r.ok
       /\ RetryIfException(r.err)
       /\ ~StopAfterAttempt(attempt_number)
       /\ pc' = "sleep"
       /\ outcome' = r
       /\ UNCHANGED raised
    \/ /\ ~r.ok
       /\ RetryIfException(r.err)
       /\ StopAfterAttempt(attempt_number)
       /\ pc' = "raised"
       /\ outcome' = Failure(RaisedOnStop(r.err))
       /\ raised' = [raised EXCEPT ![idx] = RaisedOnStop(r.err)]
    \/ /\ ~r.ok
       /\ ~RetryIfException(r.err)
       /\ pc' = "raised"
       /\ outcome' = r
       /\ raised' = [raised EXCEPT ![idx] = r.err]

\* One attempt: the call of client.evaluate with the item's ticket and
\* reply, parse_response on what it returns, and tenacity's decision.
Attempt ==
    /\ pc = "attempt"
    /\ \E o \in ClientOutcomes :
          /\ calls' = [calls EXCEPT ![idx] = Append(@, o)]
          /\ AfterAttempt(BodyOutcome[o])
    /\ log' = Append(log, Event("call", idx, 0))
    /\ UNCHANGED <<tickets, idx, attempt_number, results>>
    /\ UNCHANGED parserVars
    /\ UNCHANGED mainVars


\* Mutant of Sleep: while the item waits, client.evaluate is called for
\* another item.
OtherItem(i) == IF i < Len(tickets) THEN i + 1 ELSE 1
SleepYields ==
    /\ pc = "sleep"
    /\ attempt_number' = attempt_number + 1
    /\ pc' = "attempt"
    /\ \E o \in ClientOutcomes :
          calls' = [calls EXCEPT ![OtherItem(idx)] = Append(@, o)]
    /\ log' = log \o <<Event("wait", idx, wait_exponential(attempt_number)),
                        Event("call", OtherItem(idx), 0)>>
    /\ UNCHANGED <<tickets, idx, outcome, results, raised>>
    /\ UNCHANGED parserVars
    /\ UNCHANGED mainVars

\* The wait between two attempts: tenacity sleeps for what the wait
\* strategy gives for the attempt that failed.
Sleep ==
    /\ pc = "sleep"
    /\ attempt_number' = attempt_number + 1
    /\ pc' = "attempt"
    /\ log' = Append(log, Event("wait", idx, wait_exponential(attempt_number)))
    /\ UNCHANGED <<tickets, idx, outcome, results, calls, raised>>
    /\ UNCHANGED parserVars
    /\ UNCHANGED mainVars

----------------------------------------------------------------------------
(* src/src/evaluator.py: evaluate_tickets                                  *)

TicketEvaluated(t, cs, ce, fs, fe) ==
    [ticket |-> t.ticket, reply |-> t.reply,
     content_score |-> cs, content_explanation |-> ce,
     format_score |-> fs, format_explanation |-> fe]


\* Mutant of FailedText: the message of the error is left out.
FailedTextGeneric(err) == <<"Evaluation failed">>

\* f"Evaluation failed: {e}"
FailedText(err) == <<"Evaluation failed: ", err.msg>>

Evaluated(t, res) ==
    TicketEvaluated(t, res.content_score, res.content_explanation,
                    res.format_score, res.format_explanation)


\* Mutant of Placeholder: the lowest score of the rubric instead of 0.
PlaceholderLowest(t, err) ==
    TicketEvaluated(t, 1, FailedText(err), 1, FailedText(err))

Placeholder(t, err) == TicketEvaluated(t, 0, FailedText(err), 0, FailedText(err))

\* for i, ticket_input in enumerate(tickets, start=1): the next item, and
\* the call of evaluate_ticket_with_retry inside the try.
NextTicket ==
    /\ pc = "loop"
    /\ idx <= Len(tickets)
    /\ attempt_number' = 1
    /\ outcome' = NoOutcome
    /\ pc' = "attempt"
    /\ UNCHANGED <<tickets, idx, results, calls, raised, log>>
    /\ UNCHANGED parserVars
    /\ UNCHANGED mainVars

\* The wrapper returned: build the record and append it.
AppendEvaluated ==
    /\ pc = "returned"
    /\ results' = Append(results, Evaluated(tickets[idx], outcome.res))
    /\ log' = Append(log, Event("record", idx, 0))
    /\ idx' = idx + 1
    /\ pc' = "loop"
    /\ UNCHANGED <<tickets, attempt_number, outcome, calls, raised>>
    /\ UNCHANGED parserVars
    /\ UNCHANGED mainVars


\* Mutants of AppendPlaceholder: the failed item gets no record; the error
\* ends the batch after its record; the error leaves evaluate_tickets.
AbortBatch ==
    /\ pc = "raised"
    /\ pc' = "aborted"
    /\ UNCHANGED <<tickets, idx, attempt_number, outcome, results, calls, raised,
                   log>>
    /\ UNCHANGED parserVars
    /\ UNCHANGED mainVars
SkipFailed ==
    /\ pc = "raised"
    /\ idx' = idx + 1
    /\ pc' = "loop"
    /\ UNCHANGED <<tickets, attempt_number, outcome, results, calls, raised, log>>
    /\ UNCHANGED parserVars
    /\ UNCHANGED mainVars
AbortOnFailure ==
    /\ pc = "raised"
    /\ results' = Append(results, Placeholder(tickets[idx], outcome.err))
    /\ log' = Append(log, Event("record", idx, 0))
    /\ pc' = "done"
    /\ UNCHANGED <<tickets, idx, attempt_number, outcome, calls, raised>>
    /\ UNCHANGED parserVars
    /\ UNCHANGED mainVars


\* Mutant of AppendPlaceholder: the item that failed stays the item of the
\* loop and is evaluated again.
RequeuePlaceholder ==
    /\ pc = "raised"
    /\ results' = Append(results, Placeholder(tickets[idx], outcome.err))
    /\ log' = Append(log, Event("record", idx, 0))
    /\ pc' = "loop"
    /\ UNCHANGED <<tickets, idx, attempt_number, outcome, calls, raised>>
    /\ UNCHANGED parserVars
    /\ UNCHANGED mainVars

\* except Exception as e: append the record with default scores.
AppendPlaceholder ==
    /\ pc = "raised"
    /\ results' = Append(results, Placeholder(tickets[idx], outcome.err))
    /\ log' = Append(log, Event("record", idx, 0))
    /\ idx' = idx + 1
    /\ pc' = "loop"
    /\ UNCHANGED <<tickets, attempt_number, outcome, calls, raised>>
    /\ UNCHANGED parserVars
    /\ UNCHANGED mainVars

\* return results
ReturnResults ==
    /\ pc = "loop"
    /\ idx > Len(tickets)
    /\ pc' = "done"
    /\ UNCHANGED <<tickets, idx, attempt_number, outcome, results, calls, raised,
                   log>>
    /\ UNCHANGED parserVars
    /\ UNCHANGED mainVars

Init ==
    /\ tickets \in TicketLists
    /\ idx = 1
    /\ pc = "loop"
    /\ attempt_number = 0
    /\ outcome = NoOutcome
    /\ results = <<>>
    /\ calls = [j \in 1..Len(tickets) |-> <<>>]
    /\ raised = [j \in 1..Len(tickets) |-> NoError]
    /\ log = <<>>
    /\ ParserIdle
    /\ MainIdle

Next ==
    \/ NextTicket
    \/ Attempt
    \/ Sleep
    \/ AppendEvaluated
    \/ AppendPlaceholder
    \/ ReturnResults

Spec == Init /\ [][Next]_vars

\* The loop is sequential code: a step that can be taken is taken, provided
\* client.evaluate returns or raises and time.sleep ends.
FairSpec == Init /\ [][Next]_vars /\ WF_vars(Next)

----------------------------------------------------------------------------
(* src/src/csv_handler.py: read_tickets                                    *)

MaxRows == 2

\* A file: whether it can be opened, its header row (<<>> for a file with
\* no line at all) and its data rows, each a sequence of cells, a cell a
\* text.  A row may be shorter than the header; <<>> is a blank line.
File(exists, header, rows) == [exists |-> exists, header |-> header, rows |-> rows]

Cells ==
    [padded |-> <<" ", "Order delayed?", " ">>,
     plain  |-> <<"Order delayed?">>,
     reply  |-> <<"Shipped yesterday">>,
     second |-> <<"Refund please">>,
     answer |-> <<"Refund issued", "\n">>,
     empty  |-> <<>>,
     blank  |-> <<" ", " ">>]

Rows ==
    {<<Cells.padded, Cells.reply>>,      \* usable, to be trimmed
     <<Cells.second, Cells.answer>>,     \* usable, to be trimmed
     <<Cells.empty, Cells.answer>>,      \* an empty cell
     <<Cells.plain, Cells.blank>>,       \* a cell of white space
     <<Cells.plain>>,                    \* a short row
     <<>>}                               \* a blank line

RowLists(n) == UNION {[1..k -> Rows] : k \in 0..n}

Files ==
    {File(FALSE, <<>>, <<>>), File(TRUE, <<>>, <<>>)}
    \cup {File(TRUE, <<"ticket", "reply">>, rs) : rs \in RowLists(MaxRows)}
    \cup {File(TRUE, h, rs) :
            h \in {<<"ticket">>, <<"id", "reply">>, <<"reply", "ticket">>},
            rs \in RowLists(1)}

\* csv.DictReader: the cell of a row under a column name; a column the row
\* is too short for holds None (restval).
NoneCell == [none |-> TRUE, text |-> <<>>]
Cell(text) == [none |-> FALSE, text |-> text]
ColumnOf(header, name) ==
    IF \E k \in 1..Len(header) : header[k] = name
    THEN CHOOSE k \in 1..Len(header) :
             /\ header[k] = name
             /\ \A m \in (k + 1)..Len(header) : header[m] # name
    ELSE 0
RowGet(header, row, name) ==
    IF ColumnOf(header, name) = 0 THEN Cell(<<>>)
    ELSE IF ColumnOf(header, name) > Len(row) THEN NoneCell
    ELSE Cell(row[ColumnOf(header, name)])

\* csv.DictReader yields no row for a blank line.
RECURSIVE DictRows(_)
DictRows(rows) ==
    IF Len(rows) = 0 THEN <<>>
    ELSE (IF Len(rows[1]) = 0 THEN <<>> ELSE <<rows[1]>>) \o DictRows(Tail(rows))

Read(ok, ts, sk, err) == [ok |-> ok, tickets |-> ts, skipped |-> sk, err |-> err]

AttributeError ==
    Error("AttributeError", "'NoneType' object has no attribute 'strip'")

\* The body of the for loop for the row numbered row_num, given what the
\* rows before it gave.
ReadRowCells(ticket, reply, row_num, sofar) ==
    IF ticket.none \/ reply.none
    THEN Read(FALSE, <<>>, sofar.skipped, AttributeError)
    ELSE IF Len(Strip(ticket.text)) = 0 \/ Len(Strip(reply.text)) = 0
    THEN Read(TRUE, sofar.tickets, Append(sofar.skipped, row_num), NoError)
    ELSE Read(TRUE,
              Append(sofar.tickets,
                     TicketInput(Strip(ticket.text), Strip(reply.text))),
              sofar.skipped, NoError)

ReadRow(header, row, row_num, sofar) ==
    IF ~sofar.ok THEN sofar
    ELSE ReadRowCells(RowGet(header, row, "ticket"),
                      RowGet(header, row, "reply"), row_num, sofar)

\* for row_num, row in enumerate(reader, start=2), up to the k-th row.
RECURSIVE ReadRows(_, _, _)
ReadRows(header, rows, k) ==
    IF k = 0 THEN Read(TRUE, <<>>, <<>>, NoError)
    ELSE ReadRow(header, rows[k], k + 1, ReadRows(header, rows, k - 1))

\* Mutant of CheckNotEmpty: an empty list of tickets is returned.
AllowEmpty(r) == r

\* if not tickets: raise ValueError("No valid tickets found in CSV")
CheckNotEmpty(r) ==
    IF r.ok /\ Len(r.tickets) = 0
    THEN Read(FALSE, <<>>, r.skipped,
              Error("ValueError", "No valid tickets found in CSV"))
    ELSE r

MissingColumns(header) == {"ticket", "reply"} \ {header[k] : k \in 1..Len(header)}

\* read_tickets: the tickets, or the error raised; and the rows warned of.
read_tickets(f) ==
    IF ~f.exists
    THEN Read(FALSE, <<>>, <<>>,
              Error("FileNotFoundError", "No such file or directory"))
    ELSE IF Len(f.header) = 0
    THEN Read(FALSE, <<>>, <<>>, Error("ValueError", "Empty CSV file"))
    ELSE IF MissingColumns(f.header) # {}
    THEN Read(FALSE, <<>>, <<>>, Error("ValueError", "Missing required columns"))
    ELSE CheckNotEmpty(ReadRows(f.header, DictRows(f.rows),
                                Len(DictRows(f.rows))))

\* What read_tickets does for each file.
ReadOutcome == [f \in Files |-> read_tickets(f)]

----------------------------------------------------------------------------
(* src/evaluate_tickets.py: main                                           *)

\* The summary: the records with content_score > 0, and a mean as Python
\* prints it with two decimals, in hundredths (sum / n is rounded to the
\* nearest hundredth; there is no tie for n < 8).

\* Mutant of Successful: every record counts, whatever its score.
AllRecords(rs) == rs

\* successful = [r for r in results if r.content_score > 0]
RECURSIVE Successful(_)
Successful(rs) ==
    IF Len(rs) = 0 THEN <<>>
    ELSE (IF rs[1].content_score > 0 THEN <<rs[1]>> ELSE <<>>)
         \o Successful(Tail(rs))

RECURSIVE SumContent(_)
SumContent(rs) ==
    IF Len(rs) = 0 THEN 0 ELSE rs[1].content_score + SumContent(Tail(rs))
RECURSIVE SumFormat(_)
SumFormat(rs) ==
    IF Len(rs) = 0 THEN 0 ELSE rs[1].format_score + SumFormat(Tail(rs))

Hundredths(total, n) == (200 * total + n) \div (2 * n)

\* sum(...) / len(successful) if successful else 0
Average(total, successful) ==
    IF Len(successful) > 0 THEN Hundredths(total, Len(successful)) ELSE 0

SummaryOf(rs, successful) ==
    [total |-> Len(rs),
     successful |-> Len(successful),
     failed |-> Len(rs) - Len(successful),
     avg_content |-> Average(SumContent(successful), successful),
     avg_format |-> Average(SumFormat(successful), successful)]

\* An except clause of main: the error is printed and main returns 1.
ExitWith(err) ==
    /\ reported' = err
    /\ exit_code' = 1
    /\ pc' = "exit"

\* tickets = read_tickets(args.input_file)
ReadReturned(r) ==
    \/ /\ r.ok
       /\ tickets' = r.tickets
       /\ pc' = "create"
       /\ UNCHANGED <<reported, exit_code>>
    \/ /\ ~r.ok
       /\ ExitWith(r.err)
       /\ UNCHANGED tickets

ReadTickets ==
    /\ pc = "main"
    /\ ReadReturned(ReadOutcome[file])
    /\ skipped' = ReadOutcome[file].skipped
    /\ UNCHANGED <<idx, attempt_number, outcome, results, calls, raised, log>>
    /\ UNCHANGED <<file, output, summary>>
    /\ UNCHANGED parserVars

\* client = create_client(args.model), which raises when the provider's
\* key is not set, and the entry of evaluate_tickets.
CreateClient ==
    /\ pc = "create"
    /\ \/ /\ pc' = "loop"
          /\ idx' = 1
          /\ calls' = [j \in 1..Len(tickets) |-> <<>>]
          /\ raised' = [j \in 1..Len(tickets) |-> NoError]
          /\ UNCHANGED <<reported, exit_code>>
       \/ /\ ExitWith(Error("ValueError", "GROQ_API_KEY environment variable not set"))
          /\ UNCHANGED <<idx, calls, raised>>
    /\ UNCHANGED <<tickets, attempt_number, outcome, results, log>>
    /\ UNCHANGED <<file, skipped, output, summary>>
    /\ UNCHANGED parserVars

\* Mutant of WriteResults: the file is also written after each record,
\* with the records there are so far.
WriteAsRecorded ==
    /\ \/ /\ pc = "loop"
          /\ Len(output) < Len(results)
          /\ output' = Append(output, results)
          /\ UNCHANGED <<pc, reported, exit_code>>
       \/ /\ pc = "done"
          /\ output' = Append(output, results)
          /\ pc' = "written"
          /\ UNCHANGED <<reported, exit_code>>
       \/ /\ pc = "done"
          /\ ExitWith(Error("PermissionError", "Permission denied"))
          /\ UNCHANGED output
    /\ UNCHANGED <<tickets, idx, attempt_number, outcome, results, calls, raised,
                   log>>
    /\ UNCHANGED <<file, skipped, summary>>
    /\ UNCHANGED parserVars

\* write_results(args.output, results): the file is written, or open()
\* raises.
WriteResults ==
    /\ pc = "done"
    /\ \/ /\ output' = Append(output, results)
          /\ pc' = "written"
          /\ UNCHANGED <<reported, exit_code>>
       \/ /\ ExitWith(Error("PermissionError", "Permission denied"))
          /\ UNCHANGED output
    /\ UNCHANGED <<tickets, idx, attempt_number, outcome, results, calls, raised,
                   log>>
    /\ UNCHANGED <<file, skipped, summary>>
    /\ UNCHANGED parserVars

\* The summary is printed and main returns 0.
Summary ==
    /\ pc = "written"
    /\ summary' = SummaryOf(results, Successful(results))
    /\ exit_code' = 0
    /\ pc' = "exit"
    /\ UNCHANGED <<tickets, idx, attempt_number, outcome, results, calls, raised,
                   log>>
    /\ UNCHANGED <<file, skipped, output, reported>>
    /\ UNCHANGED parserVars

MainInit ==
    /\ file \in Files
    /\ skipped = <<>>
    /\ output = <<>>
    /\ summary = NoSummary
    /\ reported = NoError
    /\ exit_code = -1
    /\ tickets = <<>>
    /\ idx = 0
    /\ pc = "main"
    /\ attempt_number = 0
    /\ outcome = NoOutcome
    /\ results = <<>>
    /\ calls = <<>>
    /\ raised = <<>>
    /\ log = <<>>
    /\ ParserIdle

MainNext ==
    \/ ReadTickets
    \/ CreateClient
    \/ NextTicket
    \/ Attempt
    \/ Sleep
    \/ AppendEvaluated
    \/ AppendPlaceholder
    \/ ReturnResults
    \/ WriteResults
    \/ Summary

MainSpec == MainInit /\ [][MainNext]_vars

\* The summary alone, on lists of records as evaluate_tickets builds them:
\* both scores in 1..5, or both 0 in a placeholder.
MaxRecords == 3

SummaryRecords ==
    {TicketEvaluated(TicketInput("Order delayed?", "Shipped yesterday"),
                     s[1], <<"Good">>, s[2], <<"Bad">>) :
        s \in {<<4, 3>>, <<5, 5>>, <<1, 2>>}}
    \cup {Placeholder(TicketInput("Refund please", "Refund issued"),
                      Error("ValueError", "LLM returned empty response"))}

ResultLists == UNION {[1..n -> SummaryRecords] : n \in 1..MaxRecords}

SummaryInit ==
    /\ results \in ResultLists
    /\ pc = "written"
    /\ output = <<results>>
    /\ summary = NoSummary
    /\ reported = NoError
    /\ exit_code = -1
    /\ file = NoFile
    /\ skipped = <<>>
    /\ tickets = <<>>
    /\ idx = 0
    /\ attempt_number = 0
    /\ outcome = NoOutcome
    /\ calls = <<>>
    /\ raised = <<>>
    /\ log = <<>>
    /\ ParserIdle

SummaryNext == Summary

SummarySpec == SummaryInit /\ [][SummaryNext]_vars

----------------------------------------------------------------------------
(* What each reply of ClientDocs must give, worked out by hand from        *)
(* parser.py; the properties below compare the run against it.             *)

GoodReply ==
    Render(Doc("object", Form("int", 0), Form("str", 1), Form("int", 10),
               Form("str", 2), FALSE))
ProseReply == Render(Doc("prose", Absent, Absent, Absent, Absent, FALSE))
InfReply ==
    Render(Doc("object", Form("inf", 0), Form("str", 1), Form("int", 3),
               Form("str", 2), FALSE))

OverflowErr == Error("OverflowError", "cannot convert float infinity to integer")

Expected(o) ==
    IF o.raises THEN Failure(o.err)
    ELSE IF o.text = GoodReply
    THEN Success(EvaluationResult(1, <<"Good">>, 5, <<"Bad">>))
    ELSE IF o.text = ProseReply
    THEN Success(EvaluationResult(5, <<"Unable to parse explanation">>, 3,
                                  <<"Unable to parse explanation">>))
    ELSE Failure(OverflowErr)

AttemptFailed(o) == ~Expected(o).ok

\* Item j made three attempts and every one failed.
Exhausted(j) ==
    /\ Len(calls[j]) = 3
    /\ \A k \in 1..3 : AttemptFailed(calls[j][k])

\* Item j's last attempt so far succeeded.
Succeeded(j) ==
    /\ Len(calls[j]) >= 1
    /\ ~AttemptFailed(calls[j][Len(calls[j])])

Items == 1..Len(tickets)
Appended == 1..Len(results)
BothZero(r) == r.content_score = 0 /\ r.format_score = 0

----------------------------------------------------------------------------
(* C1..C7: evaluate_tickets and evaluate_ticket_with_retry (Spec)          *)

\* C1: whatever the outcomes of the attempts, the records built so far are
\* those of the first requests, in input order, each carrying its request's
\* ticket and reply unchanged; when evaluate_tickets returns there are
\* exactly as many records as requests.
C1_OneRecordPerRequest ==
    /\ Len(results) <= Len(tickets)
    /\ \A j \in Appended :
          /\ results[j].ticket = tickets[j].ticket
          /\ results[j].reply = tickets[j].reply
    /\ pc = "done" => Len(results) = Len(tickets)

\* C1 happens: a batch of two different requests returned, the first item
\* failed on every attempt and the second succeeded.
C1_Witness ==
    /\ pc = "done"
    /\ Len(tickets) = 2
    /\ tickets[1] # tickets[2]
    /\ Exhausted(1)
    /\ Succeeded(2)

\* C2: the records with both scores 0 are exactly those of the items that
\* exhausted their retries (so there are K of them), every other record has
\* both scores in 1..5, and no record has exactly one score 0.
C2_ZeroScoresCountFailures ==
    /\ \A j \in Appended :
          /\ BothZero(results[j]) <=> Exhausted(j)
          /\ ~Exhausted(j) => /\ results[j].content_score \in 1..5
                              /\ results[j].format_score \in 1..5
          /\ (results[j].content_score = 0) <=> (results[j].format_score = 0)
    /\ pc = "done" =>
          Cardinality({j \in Appended : BothZero(results[j])})
              = Cardinality({j \in Items : Exhausted(j)})

\* C2 happens: of two items exactly one exhausted its retries, and the
\* other's reply had the scores 0 and 10, which were clamped.
C2_Witness ==
    /\ pc = "done"
    /\ Len(tickets) = 2
    /\ Cardinality({j \in Items : Exhausted(j)}) = 1
    /\ \E j \in Items : /\ Succeeded(j)
                        /\ calls[j][Len(calls[j])].text = GoodReply

\* The record an item gets, from its own request and its own attempts only.
OwnRecord(j) ==
    IF Expected(calls[j][Len(calls[j])]).ok
    THEN Evaluated(tickets[j], Expected(calls[j][Len(calls[j])]).res)
    ELSE Placeholder(tickets[j], Expected(calls[j][Len(calls[j])]).err)

\* C3: every record is determined by its own item's request and attempts,
\* whatever happened to the other items, and when evaluate_tickets returns
\* client.evaluate has been called for every item, those after a failed
\* item included.
C3_FailureIsIsolated ==
    /\ \A j \in Appended : results[j] = OwnRecord(j)
    /\ pc = "done" => \A j \in Items : Len(calls[j]) >= 1

\* C3 happens: the first item failed with an error of client.evaluate and
\* with an error of parse_response, and the second item was then evaluated.
C3_Witness ==
    /\ pc = "done"
    /\ Len(tickets) = 2
    /\ Exhausted(1)
    /\ \E k \in 1..3 : calls[1][k].raises
    /\ \E k \in 1..3 : ~calls[1][k].raises
    /\ Len(calls[2]) >= 1
    /\ ~BothZero(results[2])

\* C4: the wrapper raises only after exactly 3 calls of client.evaluate
\* that all failed; while an item has made 1 or 2 attempts and all failed,
\* the wrapper has not raised and is waiting for, or making, its next
\* attempt; after 3 failed attempts no further call is made.
C4_ThreeAttemptsThenRaise ==
    \A j \in Items :
        /\ Len(calls[j]) <= 3
        /\ raised[j] # NoError => Exhausted(j)
        /\ Exhausted(j) => raised[j] # NoError
        /\ (/\ Len(calls[j]) \in {1, 2}
            /\ \A k \in 1..Len(calls[j]) : AttemptFailed(calls[j][k]))
           => /\ raised[j] = NoError
              /\ idx = j
              /\ pc \in {"sleep", "attempt"}
              /\ pc = "attempt" => attempt_number = Len(calls[j]) + 1

\* C4 happens: the wrapper raised after three failed attempts, of which one
\* failed in client.evaluate and one in parse_response.
C4_Witness ==
    /\ pc = "raised"
    /\ Len(calls[idx]) = 3
    /\ \E k \in 1..3 : calls[idx][k].raises
    /\ \E k \in 1..3 : calls[idx][k].text = InfReply

\* C5: when the wrapper returns, the item's first k attempts (k in 0..2)
\* failed, attempt k+1 succeeded, the result is the parsed response of
\* attempt k+1 and client.evaluate has been called k+1 times; no call of
\* client.evaluate ever follows a successful attempt of the same item.
C5_ReturnsFirstSuccess ==
    /\ pc = "returned" =>
          /\ Len(calls[idx]) \in 1..3
          /\ attempt_number = Len(calls[idx])
          /\ outcome = Expected(calls[idx][Len(calls[idx])])
          /\ outcome.ok
    /\ \A j \in Items : \A k \in 1..(Len(calls[j]) - 1) :
          AttemptFailed(calls[j][k])

\* C5 happens: the wrapper returned on the third attempt, after a failure
\* of client.evaluate and a failure of parse_response.
C5_Witness ==
    /\ pc = "returned"
    /\ Len(calls[idx]) = 3
    /\ calls[idx][1].raises
    /\ calls[idx][2].text = InfReply
    /\ calls[idx][3].text = ProseReply

\* C6: the error the wrapper raises is the error of the third attempt
\* itself, kind and message.
C6_RaisesOriginalError ==
    /\ pc = "raised" => outcome = Expected(calls[idx][Len(calls[idx])])
    /\ \A j \in Items :
          raised[j] # NoError => raised[j] = Expected(calls[j][3]).err

\* C6 happens: the wrapper raised the OverflowError of parse_response on
\* the third attempt, after two attempts that failed with the client's
\* ValueError.
C6_Witness ==
    /\ pc = "raised"
    /\ calls[idx][1].raises
    /\ calls[idx][2].raises
    /\ calls[idx][3].text = InfReply
    /\ outcome.err = OverflowErr

\* C7: an item whose attempts all failed has one record, with both scores
\* 0 and both explanations the text "Evaluation failed: " followed by the
\* message of the error the wrapper raised for it.
C7_PlaceholderCarriesMessage ==
    \A j \in Appended :
        Exhausted(j) =>
            /\ results[j].content_score = 0
            /\ results[j].format_score = 0
            /\ results[j].content_explanation
                   = <<"Evaluation failed: ", raised[j].msg>>
            /\ results[j].format_explanation = results[j].content_explanation
            /\ raised[j].msg = Expected(calls[j][3]).err.msg

\* C7 happens: a placeholder with the message of the client's error and
\* one with the message of the parser's error are in the results.
C7_Witness ==
    /\ Len(results) = 2
    /\ results[1].content_explanation
           = <<"Evaluation failed: ", "LLM returned empty response">>
    /\ results[2].content_explanation
           = <<"Evaluation failed: ", "cannot convert float infinity to integer">>

----------------------------------------------------------------------------
(* C8..C10: parse_response (ParserSpec)                                    *)

HasFourKeys(d) ==
    /\ d.cs # Absent
    /\ d.ce # Absent
    /\ d.fs # Absent
    /\ d.fe # Absent

\* The object the prompt asks for: the four keys and no other, integer
\* scores, string explanations.
WellFormed(d) ==
    /\ d.shape = "object"
    /\ ~d.extra
    /\ d.cs.k = "int"
    /\ d.fs.k = "int"
    /\ d.ce.k \in {"str", "empty"}
    /\ d.fe.k \in {"str", "empty"}

\* The content of an explanation string of a doc.
ExplContent(f) == IF f.k = "str" THEN <<ExplWord(f.n)>> ELSE <<>>

Nearest(s) == IF s < 1 THEN 1 ELSE IF s > 5 THEN 5 ELSE s

\* C8: parse_response raises no error on any text, and a result it returns
\* has both scores in 1..5.
C8_ParserNeverFails ==
    /\ ppc # "raised"
    /\ ppc = "returned" => /\ presult.content_score \in 1..5
                           /\ presult.format_score \in 1..5

\* C9: on a well-formed four-key object with integer scores the primary
\* path returns, each score is the decoded integer moved to the nearest
\* bound of 1..5, and each explanation is the decoded string.
C9_IntegerScoresAreClamped ==
    WellFormed(doc) =>
        /\ ppc \in {"start", "returned"}
        /\ ppc = "returned" =>
              /\ path = "json"
              /\ presult = EvaluationResult(Nearest(doc.cs.n), ExplContent(doc.ce),
                                            Nearest(doc.fs.n), ExplContent(doc.fe))

\* C9 happens: the scores 10 and -7 were decoded and returned as 5 and 1.
C9_Witness ==
    /\ ppc = "returned"
    /\ WellFormed(doc)
    /\ doc.cs.n = 10
    /\ doc.fs.n = -7
    /\ presult.content_score = 5
    /\ presult.format_score = 1

\* C10 as claimed: the primary path returns a result only for an object
\* whose key set is exactly the four keys.
C10_ExactlyFourKeys ==
    (ppc = "returned" /\ path = "json") =>
        /\ doc.shape = "object"
        /\ HasFourKeys(doc)
        /\ ~doc.extra

\* A value int() accepts without raising.
Coercible(f) == f.k \in {"int", "float", "quoted", "true"}

\* C10 as amended: the primary path returns a result only for an object
\* that has the four keys, so for anything else a returned result is the
\* fallback's; an additional key does not make the primary path fail.
C10_FourKeysRequiredOthersIgnored ==
    /\ (ppc = "returned" /\ path = "json") =>
          /\ doc.shape = "object"
          /\ HasFourKeys(doc)
    /\ (ppc = "returned" /\ ~(doc.shape = "object" /\ HasFourKeys(doc))) =>
          /\ path = "regex"
          /\ warned
    /\ (/\ ppc = "returned"
        /\ doc.shape = "object"
        /\ HasFourKeys(doc)
        /\ doc.extra
        /\ Coercible(doc.cs)
        /\ Coercible(doc.fs)) => path = "json"

\* C10 happens: an object with the four keys and an additional key was
\* returned by the primary path.
C10_Witness ==
    /\ ppc = "returned"
    /\ path = "json"
    /\ doc.shape = "object"
    /\ doc.extra
    /\ HasFourKeys(doc)

----------------------------------------------------------------------------
(* C11..C13: the two paths of parse_response (ParserSpec)                  *)

\* What each path must give for a doc, worked out by hand from parser.py.

\* The primary path returns for an object with the four keys whose scores
\* int() accepts; str() accepts every value.
PrimaryReturns(d) ==
    /\ d.shape = "object"
    /\ HasFourKeys(d)
    /\ Coercible(d.cs)
    /\ Coercible(d.fs)

\* int() of a score value: n.5 is cut to n, "n" is read as n, true is 1.
PrimaryScore(f) == Nearest(IF f.k = "true" THEN 1 ELSE f.n)

\* str() of an explanation value.
PrimaryExplanation(f) ==
    CASE f.k = "str"   -> <<ExplWord(f.n)>>
      [] f.k = "empty" -> <<>>
      [] f.k = "int"   -> IntToText(f.n)
      [] f.k = "null"  -> <<"None">>

PrimaryResult(d) ==
    EvaluationResult(PrimaryScore(d.cs), PrimaryExplanation(d.ce),
                     PrimaryScore(d.fs), PrimaryExplanation(d.fe))

\* C11: when the primary path returns a result, parse_response returns
\* exactly that result, and the except clause (the warning and the regex
\* search) is not run; a result of the regex search is returned only for a
\* text on which the primary path raised one of the errors caught.
C11_FallbackOnlyOnFailure ==
    /\ (ppc = "returned" /\ PrimaryReturns(doc)) =>
          /\ path = "json"
          /\ ~warned
          /\ presult = PrimaryResult(doc)
          /\ presult = parse_response_json(raw_response).res
    /\ (ppc = "returned" /\ path = "regex") =>
          /\ ~PrimaryReturns(doc)
          /\ warned
          /\ ~parse_response_json(raw_response).ok
          /\ parse_response_json(raw_response).err \in CaughtByParseResponse
          /\ presult = parse_response_regex(raw_response)
    /\ ppc = "except" => ~PrimaryReturns(doc)
    /\ warned => ~PrimaryReturns(doc)

\* C11 happens: the primary path returned the score written as "4", where
\* the regex search would have given the default 3.
C11_Witness ==
    /\ ppc = "returned"
    /\ path = "json"
    /\ ~warned
    /\ doc.cs = Form("quoted", 4)
    /\ presult.content_score = 4
    /\ parse_response_regex(raw_response).content_score = 3

\* The text that holds one field alone.
OnlyCS(d) == Render(Doc("bare", d.cs, Absent, Absent, Absent, FALSE))
OnlyCE(d) == Render(Doc("bare", Absent, d.ce, Absent, Absent, FALSE))
OnlyFS(d) == Render(Doc("bare", Absent, Absent, d.fs, Absent, FALSE))
OnlyFE(d) == Render(Doc("bare", Absent, Absent, Absent, d.fe, FALSE))

\* An unsigned integer written directly after the label.
UnsignedInt(f) == f.k = "int" /\ f.n >= 0

\* A value in which no digit follows the label directly.
NoIntegerAt(f) ==
    f.k \in {"absent", "quoted", "word", "inf", "nan", "true", "null", "list"}

\* C12: on the fallback path each field is found by its own search.  For a
\* list of fields, a field's value is the one the search gives on the text
\* that holds this field alone, whatever the other fields, the braces, the
\* quotes of the labels and an additional key are; a score is the unsigned
\* integer written after its label, clamped, and 3 when there is none; an
\* explanation is the quoted text after its label, and the sentinel when
\* there is none.  The search takes the first occurrence of a label, inside
\* another field's quoted text included.
C12_FieldsFoundIndependently ==
    (ppc = "returned" /\ path = "regex") =>
        /\ doc.shape \in Shapes =>
              /\ presult.content_score
                     = parse_response_regex(OnlyCS(doc)).content_score
              /\ presult.content_explanation
                     = parse_response_regex(OnlyCE(doc)).content_explanation
              /\ presult.format_score
                     = parse_response_regex(OnlyFS(doc)).format_score
              /\ presult.format_explanation
                     = parse_response_regex(OnlyFE(doc)).format_explanation
              /\ UnsignedInt(doc.cs) => presult.content_score = Nearest(doc.cs.n)
              /\ UnsignedInt(doc.fs) => presult.format_score = Nearest(doc.fs.n)
              /\ NoIntegerAt(doc.cs) => presult.content_score = 3
              /\ NoIntegerAt(doc.fs) => presult.format_score = 3
              /\ doc.ce.k = "str" =>
                     presult.content_explanation = <<ExplWord(doc.ce.n)>>
              /\ doc.fe.k = "str" =>
                     presult.format_explanation = <<ExplWord(doc.fe.n)>>
              /\ doc.ce.k = "empty" => presult.content_explanation = <<>>
              /\ doc.fe.k = "empty" => presult.format_explanation = <<>>
              /\ doc.ce.k \in {"absent", "int", "null"} =>
                     presult.content_explanation = <<"Unable to parse explanation">>
              /\ doc.fe.k \in {"absent", "int", "null"} =>
                     presult.format_explanation = <<"Unable to parse explanation">>
        /\ doc.shape = "nested" =>
              presult = EvaluationResult(3, <<FS, ":", " ", "2">>, 2,
                                         <<"Unable to parse explanation">>)
        /\ doc.shape = "twice" =>
              presult = EvaluationResult(2, <<"Good">>, 3,
                                         <<"Unable to parse explanation">>)
        /\ doc.shape \in {"empty", "number", "string", "null", "array"} =>
              presult = EvaluationResult(3, <<"Unable to parse explanation">>, 3,
                                         <<"Unable to parse explanation">>)

\* C12 happens: of four fields without braces one score and one
\* explanation are there and the two others are not.
C12_Witness ==
    /\ ppc = "returned"
    /\ path = "regex"
    /\ doc = Doc("bare", Absent, Form("str", 1), Form("int", 4), Absent, TRUE)
    /\ presult = EvaluationResult(3, <<"Good">>, 4,
                                  <<"Unable to parse explanation">>)

\* C13 as claimed: on the fallback path every integer written after the
\* label of a score, negative ones included, is returned moved to the
\* nearest bound of 1..5.
C13_FallbackClampsEveryInteger ==
    (ppc = "returned" /\ path = "regex" /\ doc.shape \in Shapes) =>
        /\ doc.cs.k = "int" => presult.content_score = Nearest(doc.cs.n)
        /\ doc.fs.k = "int" => presult.format_score = Nearest(doc.fs.n)

----------------------------------------------------------------------------
(* C14: the waits of evaluate_ticket_with_retry (Spec)                     *)

\* What the log holds for item j, in order, and its waits alone.
ItemLog(j) == LET OfItem(e) == e.item = j IN SelectSeq(log, OfItem)
WaitsOf(j) == LET IsWait(e) == e.kind = "wait" /\ e.item = j
              IN SelectSeq(log, IsWait)
CallsOf(j) == LET IsCall(e) == e.kind = "call" /\ e.item = j
              IN SelectSeq(log, IsCall)

RECURSIVE SumSeq(_)
SumSeq(s) == IF Len(s) = 0 THEN 0 ELSE s[1] + SumSeq(Tail(s))

\* The k-th attempt of an item is entry 2k-1 of its log and what follows
\* it is entry 2k.
WaitsFollowFailures(j, il) ==
    \A m \in 1..Len(il) :
        /\ m % 2 = 1 => il[m].kind = "call"
        /\ m % 2 = 0 =>
              /\ il[m].kind \in {"wait", "record"}
              /\ il[m].kind = "wait" =>
                    /\ m \in {2, 4}
                    /\ AttemptFailed(calls[j][m \div 2])
                    /\ il[m].t = (IF m = 2 THEN 2 ELSE 4)
              /\ il[m].kind = "record" =>
                    \/ ~AttemptFailed(calls[j][m \div 2])
                    \/ m = 6
              /\ il[m].kind = "record" => m = Len(il)

\* C14: an item's waits are 2, then 4, each within 2..10 and at most 6 in
\* all; a wait comes directly after a failed attempt that was the item's
\* 1st or 2nd, never first in the item's run, never after an attempt that
\* succeeded and never after the 3rd; after a failed 1st or 2nd attempt
\* nothing but the wait follows, and after the wait nothing but the next
\* attempt.
C14_WaitsTwoThenFour ==
    \A j \in Items :
        /\ WaitsOf(j) \in {<<>>, <<Event("wait", j, 2)>>,
                           <<Event("wait", j, 2), Event("wait", j, 4)>>}
        /\ \A k \in 1..Len(WaitsOf(j)) : WaitsOf(j)[k].t \in 2..10
        /\ SumSeq([k \in 1..Len(WaitsOf(j)) |-> WaitsOf(j)[k].t]) <= 6
        /\ Len(CallsOf(j)) = Len(calls[j])
        /\ Len(WaitsOf(j)) =
              IF pc = "attempt" /\ idx = j THEN Len(calls[j])
              ELSE IF Len(calls[j]) = 0 THEN 0 ELSE Len(calls[j]) - 1
        /\ WaitsFollowFailures(j, ItemLog(j))

\* C14 happens: the first item waited 2 and 4 and failed a third time, and
\* the second item waited 2 once and then succeeded.
C14_Witness ==
    /\ pc = "done"
    /\ Len(tickets) = 2
    /\ Len(WaitsOf(1)) = 2
    /\ WaitsOf(1)[1].t = 2
    /\ WaitsOf(1)[2].t = 4
    /\ Exhausted(1)
    /\ Len(WaitsOf(2)) = 1
    /\ WaitsOf(2)[1].t = 2
    /\ Succeeded(2)

----------------------------------------------------------------------------
(* C17: termination (FairSpec); C20: one item at a time (Spec)             *)

TotalCalls == SumSeq([j \in Items |-> Len(calls[j])])

\* C17: evaluate_tickets returns in the end; no item is ever attempted
\* more than 3 times; and when it returns every item has a record, after 1
\* to 3 calls of client.evaluate each, N to 3N calls in all.
C17_AlwaysFinishes ==
    /\ <>(pc = "done")
    /\ [](\A j \in Items : Len(calls[j]) <= 3)
    /\ [](pc = "done" =>
            /\ Len(results) = Len(tickets)
            /\ \A j \in Items : Len(calls[j]) \in 1..3
            /\ TotalCalls >= Len(tickets)
            /\ TotalCalls <= 3 * Len(tickets))

\* C17 happens: a batch of two returned after 3N = 6 calls.
C17_Witness ==
    /\ pc = "done"
    /\ Len(tickets) = 2
    /\ TotalCalls = 6
    /\ Len(results) = 2

Recorded(j) == \E p \in 1..Len(log) : log[p].kind = "record" /\ log[p].item = j

\* C20: the log starts with the first item and goes on with the same item
\* until its record, and from a record to the next item only, so that
\* whatever an item does comes after the record of the item before it and
\* before its own record, and no call for another item comes between two
\* attempts of an item; the log holds every call made; and what happens
\* next happens for the item of the loop.
C20_OneItemAtATime ==
    /\ Len(log) > 0 => log[1].item = 1
    /\ \A p \in 1..(Len(log) - 1) :
          IF log[p].kind = "record"
          THEN log[p + 1].item = log[p].item + 1
          ELSE log[p + 1].item = log[p].item
    /\ \A p \in 1..Len(log) : log[p].item \in Items
    /\ \A j \in Items :
          /\ Len(CallsOf(j)) = Len(calls[j])
          /\ Recorded(j) <=> (j <= Len(results))
          /\ j > idx => ItemLog(j) = <<>>
          /\ j < idx => Recorded(j)

\* C20 happens: the first item made three attempts with two waits, and
\* only then was the second item attempted and recorded.
C20_Witness ==
    /\ Len(log) = 8
    /\ \A p \in 1..6 : log[p].item = 1
    /\ log[2].kind = "wait"
    /\ log[4].kind = "wait"
    /\ log[6].kind = "record"
    /\ log[7] = Event("call", 2, 0)
    /\ log[8] = Event("record", 2, 0)

----------------------------------------------------------------------------
(* C15: the means of the summary (SummarySpec)                             *)

SummaryPrinted == pc = "exit" /\ exit_code = 0

\* The records that count for the means, and the totals of the scores; a
\* record left out has score 0, so it adds nothing to a total.
Counted == {j \in Appended : results[j].content_score > 0}
ContentTotal == SumSeq([j \in Appended |-> results[j].content_score])
FormatTotal == SumSeq([j \in Appended |-> results[j].format_score])

\* h hundredths is the total divided by n, to the nearest hundredth.
NearestHundredth(h, total, n) ==
    /\ 2 * (h * n - 100 * total) <= n
    /\ 2 * (100 * total - h * n) <= n

\* C15: each mean of the summary is the total of that score over the
\* records with content_score > 0 divided by their number alone, printed
\* to two decimals; with no such record both means are 0.
C15_MeansOverSuccessfulOnly ==
    SummaryPrinted =>
        /\ Counted = {} => /\ summary.avg_content = 0
                           /\ summary.avg_format = 0
        /\ Counted # {} =>
              /\ NearestHundredth(summary.avg_content, ContentTotal,
                                  Cardinality(Counted))
              /\ NearestHundredth(summary.avg_format, FormatTotal,
                                  Cardinality(Counted))

\* C15 happens: content scores 4 and 5 and one failed record give 4.50.
C15_Witness ==
    /\ SummaryPrinted
    /\ Len(results) = 3
    /\ results[1].content_score = 4
    /\ results[2].content_score = 5
    /\ results[3].content_score = 0
    /\ summary.avg_content = 450
    /\ summary.avg_format = 400

----------------------------------------------------------------------------
(* C16, C18, C19: main and read_tickets (MainSpec)                         *)

\* C16: in the summary, total is the number of requests read, successful
\* and failed add up to it, successful is the number of items whose
\* evaluation returned a result and failed the number of items that
\* exhausted their retries; main returns 0 only with the summary printed.
C16_SummaryCounts ==
    /\ SummaryPrinted =>
          /\ summary.total = Len(tickets)
          /\ summary.successful + summary.failed = summary.total
          /\ summary.successful = Cardinality({j \in Items : Succeeded(j)})
          /\ summary.failed = Cardinality({j \in Items : Exhausted(j)})
    /\ exit_code = 0 => pc = "exit"
    /\ ~SummaryPrinted => summary = NoSummary

\* C16 happens: of two requests one returned a result and one exhausted
\* its retries.
C16_Witness ==
    /\ SummaryPrinted
    /\ summary.total = 2
    /\ summary.successful = 1
    /\ summary.failed = 1
    /\ Exhausted(1)
    /\ Succeeded(2)

\* What a file holds, read by hand: the place of a column in the header,
\* the cell of a row in it, and the words of a cell.
Place(name) == CHOOSE k \in 1..Len(file.header) : file.header[k] = name
HasColumns == {"ticket", "reply"} \subseteq {file.header[k] : k \in 1..Len(file.header)}
IsWord(t) == t \notin {" ", "\n"}
Words(cell) == SelectSeq(cell, IsWord)
HasCell(row, name) == Place(name) <= Len(row)
Usable(row) ==
    /\ HasCell(row, "ticket")
    /\ HasCell(row, "reply")
    /\ Words(row[Place("ticket")]) # <<>>
    /\ Words(row[Place("reply")]) # <<>>

RECURSIVE UsableTickets(_)
UsableTickets(rows) ==
    IF Len(rows) = 0 THEN <<>>
    ELSE (IF Usable(rows[1])
          THEN <<TicketInput(Words(rows[1][Place("ticket")]),
                             Words(rows[1][Place("reply")]))>>
          ELSE <<>>) \o UsableTickets(Tail(rows))

\* The rows that are no blank line and have an empty field.
EmptyFieldRows == {k \in 1..Len(file.rows) :
                      Len(file.rows[k]) > 0 /\ ~Usable(file.rows[k])}

\* C18 as claimed: once read_tickets is over, for a file with both columns
\* and a usable row it has returned exactly the usable rows, trimmed and in
\* file order, with one warning for each row that has an empty field,
\* a short row included.
C18_ReadKeepsUsableRows ==
    (/\ pc # "main"
     /\ file.exists
     /\ HasColumns
     /\ UsableTickets(file.rows) # <<>>) =>
        /\ tickets = UsableTickets(file.rows)
        /\ Len(skipped) = Cardinality(EmptyFieldRows)
        /\ pc = "exit" => reported.kind # "AttributeError"

\* The three failures of input validation.
Unreadable == ~file.exists
ColumnMissing == file.exists /\ ~HasColumns
NoUsableRows == file.exists /\ HasColumns /\ UsableTickets(file.rows) = <<>>
InvalidInput == Unreadable \/ ColumnMissing \/ NoUsableRows
HasShortRow == \E k \in 1..Len(file.rows) :
                  Len(file.rows[k]) \in 1..(Len(file.header) - 1)

\* C19: for an unreadable file, a file without the column ticket or reply
\* and a file without a usable row, client.evaluate is never called, no
\* record is built, nothing is written, and main ends by printing the
\* error read_tickets raised and returning 1.
C19_InvalidInputIsFatal ==
    InvalidInput =>
        /\ log = <<>>
        /\ results = <<>>
        /\ output = <<>>
        /\ summary = NoSummary
        /\ pc \in {"main", "exit"}
        /\ exit_code \in {-1, 1}
        /\ pc = "exit" =>
              /\ exit_code = 1
              /\ reported # NoError
              /\ Unreadable => reported.kind = "FileNotFoundError"
              /\ ColumnMissing => reported.kind = "ValueError"
              /\ (NoUsableRows /\ ~HasShortRow) =>
                    reported = Error("ValueError", "No valid tickets found in CSV")

\* C19 happens: a file with both columns and two rows, each with an empty
\* field, made main return 1 after two warnings.
C19_Witness ==
    /\ pc = "exit"
    /\ exit_code = 1
    /\ file.header = <<"ticket", "reply">>
    /\ Len(file.rows) = 2
    /\ skipped = <<2, 3>>
    /\ reported = Error("ValueError", "No valid tickets found in CSV")
    /\ log = <<>>
    /\ output = <<>>

----------------------------------------------------------------------------
(* C21, C22: what is kept of an item (Spec)                                *)

\* C21: in every step, a record already appended stays what it is and
\* where it is, no record is removed, and no call of client.evaluate, no
\* wait and no error is added for an item that has its record; the list
\* of requests does not change either.
C21_TerminalOutcomeIsFinal ==
    [][/\ Len(results') >= Len(results)
       /\ Len(results') <= Len(results) + 1
       /\ tickets' = tickets
       /\ \A j \in 1..Len(results) :
             /\ results'[j] = results[j]
             /\ calls'[j] = calls[j]
             /\ raised'[j] = raised[j]
             /\ ItemLog(j)' = ItemLog(j)]_vars

\* C21 happens: the first item has its placeholder after 3 attempts, the
\* second item has since failed twice and is about to be attempted again.
C21_Witness ==
    /\ Len(tickets) = 2
    /\ Len(results) = 1
    /\ BothZero(results[1])
    /\ Len(calls[1]) = 3
    /\ idx = 2
    /\ pc = "attempt"
    /\ Len(calls[2]) = 2

LastCall(j) == calls[j][Len(calls[j])]

Fields(r) ==
    <<r.content_score, r.content_explanation, r.format_score,
      r.format_explanation>>

\* C22: the result the wrapper returns is the one its last response gives
\* on its own, whatever the earlier attempts of the item were; the record
\* of an item that succeeded carries the item's own ticket and reply with
\* that result; and two items of one run whose successful attempts got the
\* same response have the same four result fields, however many attempts
\* failed before and however they failed.
C22_AttemptsAreIndependent ==
    /\ pc = "returned" =>
          Fields(outcome.res) = Fields(Expected(LastCall(idx)).res)
    /\ \A j \in 1..Len(results) :
          Succeeded(j) =>
             results[j] = Evaluated(tickets[j], Expected(LastCall(j)).res)
    /\ \A i \in 1..Len(results) : \A j \in 1..Len(results) :
          (Succeeded(i) /\ Succeeded(j) /\ LastCall(i) = LastCall(j)) =>
             Fields(results[i]) = Fields(results[j])

\* C22 happens: the first item succeeded at once, the second got the same
\* response on its third attempt, after client.evaluate had failed and
\* parse_response had failed; both records hold the same fields.
C22_Witness ==
    /\ Len(results) = 2
    /\ Len(calls[1]) = 1
    /\ Len(calls[2]) = 3
    /\ calls[2][1].raises
    /\ ~calls[2][2].raises
    /\ calls[2][2].text = InfReply
    /\ ~calls[2][3].raises
    /\ calls[2][3] = calls[1][1]
    /\ Fields(results[2]) = Fields(results[1])
    /\ results[2].content_score > 0

----------------------------------------------------------------------------
(* C23: one path gives all four fields (ParserSpec)                        *)

\* What the search finds for a value written in a JSON object: the digits
\* that follow the label directly, and nothing behind a sign, a quote or a
\* letter.
FallbackScore(f) ==
    IF f.k \in {"int", "float"} /\ f.n >= 0 THEN Nearest(f.n) ELSE 3

FallbackExplanation(f) ==
    IF f.k = "str" THEN <<ExplWord(f.n)>>
    ELSE IF f.k = "empty" THEN <<>>
    ELSE <<"Unable to parse explanation">>

\* A field the structured decode reads otherwise than the search does.
ReadsOtherwise(d) ==
    \/ Coercible(d.cs) /\ PrimaryScore(d.cs) # FallbackScore(d.cs)
    \/ Coercible(d.fs) /\ PrimaryScore(d.fs) # FallbackScore(d.fs)
    \/ d.ce # Absent /\ PrimaryExplanation(d.ce) # FallbackExplanation(d.ce)
    \/ d.fe # Absent /\ PrimaryExplanation(d.fe) # FallbackExplanation(d.fe)

\* C23: when parse_response returns by the fallback for a reply that is a
\* JSON object (the decode succeeded and one field failed: a key missing
\* or a score not coercible), each of the four fields is what the search
\* finds in the raw text, also where the structured decode would have
\* read the field and read it otherwise ("4" in quotes, true, a negative
\* number, a number or null as an explanation).
C23_FallbackGivesAllFour ==
    (ppc = "returned" /\ path = "regex" /\ doc.shape = "object") =>
        /\ ~PrimaryReturns(doc)
        /\ presult.content_score = FallbackScore(doc.cs)
        /\ presult.content_explanation = FallbackExplanation(doc.ce)
        /\ presult.format_score = FallbackScore(doc.fs)
        /\ presult.format_explanation = FallbackExplanation(doc.fe)

\* C23 happens: format_score is null, content_score is "4" in quotes, which
\* int() reads as 4, and the result holds the default 3 for both.
C23_Witness ==
    /\ ppc = "returned"
    /\ path = "regex"
    /\ doc = Doc("object", Form("quoted", 4), Form("str", 1),
                 Form("null", 0), Form("str", 2), FALSE)
    /\ ReadsOtherwise(doc)
    /\ presult = EvaluationResult(3, <<"Good">>, 3, <<"Bad">>)

----------------------------------------------------------------------------
(* C24: when main writes (MainSpec)                                        *)

\* main is past the return of evaluate_tickets: write_results has been
\* called, and has written or has failed.
WriteInvoked ==
    \/ pc = "written"
    \/ pc = "exit" /\ exit_code = 0
    \/ pc = "exit" /\ reported.kind = "PermissionError"

\* C24: the output is written at most once; in every state where
\* write_results has been called the results hold one record for each
\* request read, every request has its record, and what was written is
\* that list; before the call, and in a run that ends without it (the
\* input could not be used, the client could not be made), nothing has
\* been written.
C24_WritesOnceWhenComplete ==
    /\ Len(output) <= 1
    /\ WriteInvoked =>
          /\ Len(tickets) >= 1
          /\ Len(results) = Len(tickets)
          /\ \A j \in 1..Len(tickets) : Recorded(j)
    /\ output # <<>> =>
          /\ WriteInvoked
          /\ output[1] = results
    /\ ~WriteInvoked => output = <<>>
    /\ (pc = "exit" /\ Len(log) = 0) =>
          /\ exit_code = 1
          /\ output = <<>>

\* C24 happens: a batch of two, the first with a placeholder after three
\* attempts, has been written once, whole, and main has returned 0.
C24_Witness ==
    /\ pc = "exit"
    /\ exit_code = 0
    /\ Len(tickets) = 2
    /\ Len(calls[1]) = 3
    /\ BothZero(results[1])
    /\ ~BothZero(results[2])
    /\ output = <<results>>

============================================================================
